---- MODULE Spec2Model ----
(***************************************************************************)
(* A model of preconfig.py (src/preconfig.py): the template expander that  *)
(* scans doubly-bracketed code blocks, evaluates them and forks on lists.  *)
(*                                                                         *)
(* Text is a sequence of one-character strings.  A template is kept as a   *)
(* sequence of segments (each a text); the program reads their             *)
(* concatenation one character at a time, as get_block does.               *)
(***************************************************************************)
EXTENDS Integers, Sequences, FiniteSets, TLC

(***************************************************************************)
(* Bounds of the model.                                                    *)
(***************************************************************************)
MaxSegs == 3        \* segments per template, one template per run
MaxRunSegs == 1     \* segments per template in runs with arguments
MaxRepeat == 2      \* largest REPEAT argument drawn
MaxInputs == 2      \* template files given to one run

(***************************************************************************)
(* Python values.  k is the type, n the payload of an int, s the payload   *)
(* of a str (characters), of a list or of a tuple (values).                *)
(***************************************************************************)
VInt(i) == [k |-> "int", n |-> i, s |-> <<>>]
VStr(t) == [k |-> "str", n |-> 0, s |-> t]
VList(e) == [k |-> "list", n |-> 0, s |-> e]
VTuple(e) == [k |-> "tuple", n |-> 0, s |-> e]

CODE_IN == "["
CODE_OUT == "]"

DigitChars == <<"0", "1", "2", "3", "4", "5", "6", "7", "8", "9">>
Letters == {"a", "b", "n", "t", "x", "z"}
Whitespace == {" "}

IsDigit(c) == \E d \in 1..10 : DigitChars[d] = c
DigitVal(c) == (CHOOSE d \in 1..10 : DigitChars[d] = c) - 1

RECURSIVE Flatten(_)
Flatten(segs) ==
    IF segs = <<>> THEN <<>> ELSE Head(segs) \o Flatten(Tail(segs))

(***************************************************************************)
(* str() and repr() of a value.                                            *)
(***************************************************************************)
RECURSIVE Digits(_)
Digits(i) ==
    IF i < 10 THEN <<DigitChars[i + 1]>>
    ELSE Digits(i \div 10) \o <<DigitChars[(i % 10) + 1]>>

RECURSIVE Repr(_)
RECURSIVE JoinRepr(_)
JoinRepr(vs) ==
    IF vs = <<>> THEN <<>>
    ELSE IF Len(vs) = 1 THEN Repr(vs[1])
    ELSE Repr(vs[1]) \o <<",", " ">> \o JoinRepr(Tail(vs))

Repr(v) ==
    CASE v.k = "int" -> Digits(v.n)
      [] v.k = "str" -> <<"'">> \o v.s \o <<"'">>
      [] v.k = "list" -> <<"[">> \o JoinRepr(v.s) \o <<"]">>
      [] v.k = "tuple" ->
            IF Len(v.s) = 1 THEN <<"(">> \o Repr(v.s[1]) \o <<",", ")">>
            ELSE <<"(">> \o JoinRepr(v.s) \o <<")">>

Str(v) == IF v.k = "str" THEN v.s ELSE Repr(v)

(***************************************************************************)
(* The evaluation context `values`: a dict, kept in insertion order.       *)
(***************************************************************************)
CtxHas(dic, key) == \E j \in 1..Len(dic) : dic[j].key = key
CtxGet(dic, key) == dic[CHOOSE j \in 1..Len(dic) : dic[j].key = key].val
CtxSet(dic, key, v) ==
    IF CtxHas(dic, key)
    THEN [j \in 1..Len(dic) |->
            IF dic[j].key = key THEN [key |-> key, val |-> v] ELSE dic[j]]
    ELSE Append(dic, [key |-> key, val |-> v])
CtxPop(dic, key) ==
    LET j == CHOOSE j \in 1..Len(dic) : dic[j].key = key
    IN SubSeq(dic, 1, j - 1) \o SubSeq(dic, j + 1, Len(dic))

\* len(v) succeeds and v is not a str
HasLen(v) == v.k \in {"list", "tuple"}

pop_sequence(dic) ==
    IF \E j \in 1..Len(dic) : HasLen(dic[j].val)
    THEN LET j == CHOOSE j \in 1..Len(dic) :
                    /\ HasLen(dic[j].val)
                    /\ \A h \in 1..(j - 1) : ~HasLen(dic[h].val)
         IN [key |-> dic[j].key, vals |-> dic[j].val,
             dic |-> CtxPop(dic, dic[j].key)]
    ELSE [key |-> <<>>, vals |-> VList(<<>>), dic |-> dic]

(***************************************************************************)
(* try_assignment: cmd.partition('=') and strip().                         *)
(***************************************************************************)
RECURSIVE LStrip(_)
LStrip(t) ==
    IF t /= <<>> /\ Head(t) \in Whitespace THEN LStrip(Tail(t)) ELSE t
RECURSIVE RStrip(_)
RStrip(t) ==
    IF t /= <<>> /\ t[Len(t)] \in Whitespace
    THEN RStrip(SubSeq(t, 1, Len(t) - 1)) ELSE t
Strip(t) == RStrip(LStrip(t))

try_assignment(cmd) ==
    IF \E j \in 1..Len(cmd) : cmd[j] = "="
    THEN LET j == CHOOSE j \in 1..Len(cmd) :
                    cmd[j] = "=" /\ \A h \in 1..(j - 1) : cmd[h] /= "="
             k == SubSeq(cmd, 1, j - 1)
             v == SubSeq(cmd, j + 1, Len(cmd))
         IN IF k /= <<>> /\ v /= <<>>
            THEN [key |-> Strip(k), expr |-> Strip(v)]
            ELSE [key |-> <<>>, expr |-> cmd]
    ELSE [key |-> <<>>, expr |-> cmd]

(***************************************************************************)
(* evaluate: eval(cmd, libraries, values) on the expressions the templates *)
(* can hold: integer literals, names, list displays, tuple displays and    *)
(* parenthesised expressions, with blanks between tokens.  Any other text  *)
(* raises, as does an unbound name; evaluate then returns cmd itself.      *)
(***************************************************************************)
EOT == "<EOT>"

RECURSIVE SkipWs(_, _)
SkipWs(t, p) ==
    IF p <= Len(t) /\ t[p] \in Whitespace THEN SkipWs(t, p + 1) ELSE p

\* first position at or after p that holds neither a letter nor a digit
RECURSIVE WordEnd(_, _)
WordEnd(t, p) ==
    IF p <= Len(t) /\ (IsDigit(t[p]) \/ t[p] \in Letters)
    THEN WordEnd(t, p + 1) ELSE p

RECURSIVE Decimal(_)
Decimal(w) ==
    IF w = <<>> THEN 0
    ELSE 10 * Decimal(SubSeq(w, 1, Len(w) - 1)) + DigitVal(w[Len(w)])

\* a decimal literal: digits only, no leading zero unless all are zeros
IsNumber(w) ==
    /\ \A j \in 1..Len(w) : IsDigit(w[j])
    /\ (w[1] = "0" => \A j \in 1..Len(w) : w[j] = "0")

ParseFail == [ok |-> FALSE, val |-> VInt(0), p |-> 0]

RECURSIVE ParseAtom(_, _, _)
RECURSIVE ParseItems(_, _, _, _, _, _, _)

\* An intermediate result is named by a variable bound over a singleton
\* set, CHOOSE v \in {F(x) : x \in {e}} : TRUE, so that e is computed once.

\* the expressions from p up to the closer, separated by commas; q is the
\* position of the next token and a the values read so far
ParseItems(t, p, dic, closer, acc, state, comma) ==
    LET Fail == [ok |-> FALSE, vs |-> <<>>, p |-> 0, comma |-> FALSE]
        Item(q, a, e) ==
            IF e.ok
            THEN ParseItems(t, e.p, dic, closer, Append(a, e.val),
                            "item", comma)
            ELSE Fail
        Items(q, a) ==
            IF q > Len(t) THEN Fail
            ELSE IF t[q] = closer
            THEN [ok |-> TRUE, vs |-> a, p |-> q + 1, comma |-> comma]
            ELSE IF t[q] = ","
            THEN IF state = "item"
                 THEN ParseItems(t, q + 1, dic, closer, a, "comma", TRUE)
                 ELSE Fail
            ELSE IF state = "item" THEN Fail
            ELSE CHOOSE r \in {Item(q, a, e) : e \in {ParseAtom(t, q, dic)}} :
                     TRUE
    IN CHOOSE r \in {Items(q, a) : q \in {SkipWs(t, p)}, a \in {acc}} : TRUE

ParseAtom(t, p, dic) ==
    LET c == t[p]
        List(r) ==
            IF r.ok THEN [ok |-> TRUE, val |-> VList(r.vs), p |-> r.p]
            ELSE ParseFail
        Tuple(r) ==
            IF ~r.ok THEN ParseFail
            ELSE IF Len(r.vs) = 1 /\ ~r.comma
            THEN [ok |-> TRUE, val |-> r.vs[1], p |-> r.p]
            ELSE [ok |-> TRUE, val |-> VTuple(r.vs), p |-> r.p]
    IN
    IF IsDigit(c) \/ c \in Letters
    THEN LET r == WordEnd(t, p)
             w == SubSeq(t, p, r - 1)
         IN IF IsDigit(c)
            THEN IF IsNumber(w)
                 THEN [ok |-> TRUE, val |-> VInt(Decimal(w)), p |-> r]
                 ELSE ParseFail
            ELSE IF CtxHas(dic, w)
                 THEN [ok |-> TRUE, val |-> CtxGet(dic, w), p |-> r]
                 ELSE ParseFail
    ELSE IF c = "["
    THEN CHOOSE v \in {List(r) : r \in
            {ParseItems(t, p + 1, dic, "]", <<>>, "start", FALSE)}} : TRUE
    ELSE IF c = "("
    THEN CHOOSE v \in {Tuple(r) : r \in
            {ParseItems(t, p + 1, dic, ")", <<>>, "start", FALSE)}} : TRUE
    ELSE ParseFail

\* eval(): ok is FALSE when it raises
PyEval(cmd, dic) ==
    LET Result(r) ==
            IF ~r.ok \/ r.vs = <<>> THEN ParseFail
            ELSE IF r.comma
            THEN [ok |-> TRUE, val |-> VTuple(r.vs), p |-> r.p]
            ELSE [ok |-> TRUE, val |-> r.vs[1], p |-> r.p]
    IN CHOOSE v \in {Result(r) : r \in
            {ParseItems(Append(cmd, EOT), 1, dic, EOT, <<>>, "start", FALSE)}} :
          TRUE

\* variant: the result of a failed evaluation is 0, not the text
evaluateZero(cmd, dic) ==
    CHOOSE v \in {IF r.ok THEN [res |-> r.val, failed |-> FALSE]
                  ELSE [res |-> VInt(0), failed |-> TRUE] :
                  r \in {PyEval(cmd, dic)}} : TRUE

\* res = cmd; try: res = eval(...) except Exception: report on sys.stderr
evaluate(cmd, dic) ==
    CHOOSE v \in {IF r.ok THEN [res |-> r.val, failed |-> FALSE]
                  ELSE [res |-> VStr(cmd), failed |-> TRUE] :
                  r \in {PyEval(cmd, dic)}} : TRUE

(***************************************************************************)
(* get_block(file, s, e), reading from cursor position pos (characters     *)
(* already read).  msgs are the lines it writes to `out`.                  *)
(***************************************************************************)
ReadChar(file, pos) == IF pos < Len(file) THEN file[pos + 1] ELSE ""
Advance(file, pos) == IF pos < Len(file) THEN pos + 1 ELSE pos

GetBlockEnd(pre, blk, pos, msgs) ==
    [pre |-> pre, code |-> <<>>, eof |-> TRUE, pos |-> pos,
     msgs |-> IF blk /= <<>> THEN Append(msgs, "eof") ELSE msgs]

\* the loop `while ch`, entered with ch the character read last; every
\* local of get_block is named once per iteration
RECURSIVE GetBlockLoop(_, _, _, _, _, _, _, _, _, _)
GetBlockLoop(file, s, e, ch, pre, blk, dep1, dep2, pos, msgs) ==
    LET Iterate(f, pc, pr, bl, d1, d2, ps, ms) ==
          IF pc = "" THEN GetBlockEnd(pr, bl, ps, ms)
          ELSE
          LET ch2 == ReadChar(f, ps) IN
          IF ch2 = "" THEN GetBlockEnd(pr, bl, Advance(f, ps), ms)
          ELSE
          LET pos2 == Advance(f, ps)
              dep1a == IF ch2 = s THEN d1 + 1 ELSE d1
              dep2a == IF ch2 = s /\ pc = s THEN 1 ELSE d2
              blk2 == IF dep2a /= 0 THEN Append(bl, pc) ELSE bl
              pre2 == IF dep2a /= 0 THEN pr ELSE Append(pr, pc)
              dep1b == IF ch2 = e THEN dep1a - 1 ELSE dep1a
              msgs2 == IF ch2 = e /\ dep1b < 0
                       THEN Append(ms, "unbalanced") ELSE ms
          IN IF ch2 = e /\ pc = e /\ dep1b = 0
             THEN [pre |-> pre2, code |-> Append(blk2, ch2), eof |-> FALSE,
                   pos |-> pos2, msgs |-> msgs2]
             ELSE GetBlockLoop(f, s, e, ch2, pre2, blk2, dep1b, dep2a,
                               pos2, msgs2)
    IN CHOOSE r \in {Iterate(f, pc, pr, bl, d1, d2, ps, ms) :
                        f \in {file}, pc \in {ch}, pr \in {pre},
                        bl \in {blk}, d1 \in {dep1}, d2 \in {dep2},
                        ps \in {pos}, ms \in {msgs}} : TRUE

get_block(file, pos, s, e) ==
    LET ch == ReadChar(file, pos)
    IN GetBlockLoop(file, s, e, ch, <<>>, <<>>,
                    IF ch = s THEN 1 ELSE 0, 0, Advance(file, pos), <<>>)

(***************************************************************************)
(* The state of a run of main().                                           *)
(***************************************************************************)
VARIABLES
    inputs,       \* the template files given, each a sequence of segments
    repeat,       \* the REPEAT argument
    defs,         \* the name=value definitions given, evaluated
    out,          \* where `out` points: "devnull", or "stderr" after '+'
    values,       \* the dictionary threaded through parse()
    pc,           \* where main() stands: "main", "parse" or "done"
    cur,          \* number of templates handed to parse() so far
    pass,         \* iterations of the repeat loop started in this parse()
    pos,          \* cursor of the open template file
    stack,        \* active expand_values() and process() calls, top last
    file_index,   \* the global file_index
    files_made,   \* the global files_made
    files,        \* every file written by make_file, in order
    stderr        \* what was written to sys.stderr, in order

vars == <<inputs, repeat, defs, out, values, pc, cur, pass, pos, stack,
          file_index, files_made, files, stderr>>

(***************************************************************************)
(* The state of a run of scan.py's main(), from the line that caps njobs.  *)
(***************************************************************************)
VARIABLES
    paths,        \* the directories given, in the order given
    jobsArg,      \* the jobs=INTEGER argument, 1 when absent
    importable,   \* whether `from multiprocessing import ...` succeeds
    njobs,        \* the local njobs of main()
    queue,        \* the multiprocessing Queue, oldest item first
    jobs,         \* the Process objects started, in the order started
    looped,       \* iterations done of the `for` loop main() stands in
    spc,          \* where scan.py's main() stands
    executed      \* every execute() call made, in order, with its caller

scanVars == <<paths, jobsArg, importable, njobs, queue, jobs, looped, spc,
              executed>>

\* the state of both programs
allVars == <<vars, scanVars>>

\* scan.py is not running
ScanIdle ==
    /\ paths = <<>>
    /\ jobsArg = 1
    /\ importable = TRUE
    /\ njobs = 1
    /\ queue = <<>>
    /\ jobs = <<>>
    /\ looped = 0
    /\ spc = "idle"
    /\ executed = <<>>

KeyN == <<"n">>

\* the characters of the template being parsed
Template == Flatten(inputs[cur])

Frame(fn, st, output, key, code, vals, i, val, ipos) ==
    [fn |-> fn, st |-> st, output |-> output, key |-> key, code |-> code,
     vals |-> vals, i |-> i, val |-> val, ipos |-> ipos]

ExpandFrame(text) ==
    Frame("expand_values", "start", text, <<>>, <<>>, VList(<<>>), 0,
          VInt(0), 0)
ProcessFrame(text) ==
    Frame("process", "scan", text, <<>>, <<>>, VList(<<>>), 0, VInt(0), 0)

Top == stack[Len(stack)]
Pop(stk) == SubSeq(stk, 1, Len(stk) - 1)
SetTop(stk, f) == [stk EXCEPT ![Len(stk)] = f]

\* lines written to `out` reach sys.stderr only when out is sys.stderr
OutWrite(err, msgs) ==
    IF out = "stderr"
    THEN err \o [j \in 1..Len(msgs) |-> [kind |-> msgs[j], cmd |-> <<>>]]
    ELSE err

\* variant: parse() restarts the numbering, as it restarts files_made
ParseBeginRenumber ==
    /\ pc = "main"
    /\ cur < Len(inputs)
    /\ cur' = cur + 1
    /\ values' = CtxSet(values, KeyN, VInt(0))
    /\ files_made' = <<>>
    /\ file_index' = 0
    /\ pass' = 0
    /\ pc' = "parse"
    /\ UNCHANGED scanVars
    /\ UNCHANGED <<inputs, repeat, defs, out, pos, stack, files, stderr>>

(***************************************************************************)
(* main() hands the next template to parse(): values['n'] = 0,             *)
(* set_name_motif, files_made = [].                                        *)
(***************************************************************************)
ParseBegin ==
    /\ pc = "main"
    /\ cur < Len(inputs)
    /\ cur' = cur + 1
    /\ values' = CtxSet(values, KeyN, VInt(0))
    /\ files_made' = <<>>
    /\ pass' = 0
    /\ pc' = "parse"
    /\ UNCHANGED scanVars
    /\ UNCHANGED <<inputs, repeat, defs, out, pos, stack, file_index, files, stderr>>

\* one iteration of `for x in range(repeat)`: open the file, expand_values
ParsePass ==
    /\ pc = "parse"
    /\ stack = <<>>
    /\ pass < repeat
    /\ pass' = pass + 1
    /\ pos' = 0
    /\ stack' = <<ExpandFrame(<<>>)>>
    /\ UNCHANGED scanVars
    /\ UNCHANGED <<inputs, repeat, defs, out, values, pc, cur, file_index,
                   files_made, files, stderr>>

\* parse() returns files_made; main() goes to the next template or ends
ParseReturn ==
    /\ pc = "parse"
    /\ stack = <<>>
    /\ pass = repeat
    /\ pc' = IF cur = Len(inputs) THEN "done" ELSE "main"
    /\ UNCHANGED scanVars
    /\ UNCHANGED <<inputs, repeat, defs, out, values, cur, pass, pos, stack,
                   file_index, files_made, files, stderr>>

(***************************************************************************)
(* expand_values(ifile, values, text)                                      *)
(***************************************************************************)
ExpandEnter ==
    /\ stack /= <<>>
    /\ Top.fn = "expand_values" /\ Top.st = "start"
    /\ LET r == pop_sequence(values) IN
       IF r.key /= <<>>
       THEN /\ values' = r.dic
            /\ stack' = SetTop(stack, [Top EXCEPT !.st = "loop",
                                  !.key = r.key, !.vals = r.vals,
                                  !.i = 0, !.ipos = pos])
       ELSE /\ values' = values
            /\ stack' = Append(SetTop(stack, [Top EXCEPT !.st = "call"]),
                               ProcessFrame(Top.output))
    /\ UNCHANGED scanVars
    /\ UNCHANGED <<inputs, repeat, defs, out, pc, cur, pass, pos, file_index,
                   files_made, files, stderr>>

\* next `for v in vals`: values[key] = v; expand_values(...)
ExpandLoop ==
    /\ stack /= <<>>
    /\ Top.fn = "expand_values" /\ Top.st = "loop"
    /\ Top.i < Len(Top.vals.s)
    /\ pos' = IF Top.i > 0 THEN Top.ipos ELSE pos
    /\ values' = CtxSet(values, Top.key, Top.vals.s[Top.i + 1])
    /\ stack' = Append(SetTop(stack, [Top EXCEPT !.i = @ + 1]),
                       ExpandFrame(Top.output))
    /\ UNCHANGED scanVars
    /\ UNCHANGED <<inputs, repeat, defs, out, pc, cur, pass, file_index,
                   files_made, files, stderr>>

\* the loop is over: values[key] = vals, and return
ExpandRestore ==
    /\ stack /= <<>>
    /\ Top.fn = "expand_values" /\ Top.st = "loop"
    /\ Top.i = Len(Top.vals.s)
    /\ pos' = IF Top.i > 0 THEN Top.ipos ELSE pos
    /\ values' = CtxSet(values, Top.key, Top.vals)
    /\ stack' = Pop(stack)
    /\ UNCHANGED scanVars
    /\ UNCHANGED <<inputs, repeat, defs, out, pc, cur, pass, file_index,
                   files_made, files, stderr>>

\* process() has returned to the else branch: return
ExpandReturn ==
    /\ stack /= <<>>
    /\ Top.fn = "expand_values" /\ Top.st = "call"
    /\ stack' = Pop(stack)
    /\ UNCHANGED scanVars
    /\ UNCHANGED <<inputs, repeat, defs, out, values, pc, cur, pass, pos,
                   file_index, files_made, files, stderr>>

(***************************************************************************)
(* process(ifile, values, text)                                            *)
(***************************************************************************)
Block == get_block(Template, pos, CODE_IN, CODE_OUT)

\* variant: anything with a length is popped, tuples included
CanPopAnySequence(v) == v.k \in {"list", "tuple"} /\ v.s /= <<>>

\* vals.pop() succeeds: vals is a list that is not empty
CanPop(v) == v.k = "list" /\ v.s /= <<>>

\* variant: vals.pop(0), the first value is the one kept aside
PopFirst(e) == [val |-> e[1], vals |-> Tail(e)]

\* val = vals.pop(): the last value, and the list left to iterate
PopLast(e) == [val |-> e[Len(e)], vals |-> SubSeq(e, 1, Len(e) - 1)]

\* handle remaining value (lines 366-371)
BindOrAppend(f, dic, v) ==
    IF f.key /= <<>>
    THEN [frame |-> f, dic |-> CtxSet(dic, f.key, v)]
    ELSE [frame |-> [f EXCEPT !.output = @ \o Str(v)], dic |-> dic]

\* end of the template: make_file(output, values) and return
\* next_file_name: n = file_motif % file_index; file_index += 1
ProcessEmit ==
    /\ stack /= <<>>
    /\ Top.fn = "process" /\ Top.st = "scan"
    /\ Block.eof
    /\ pos' = Block.pos
    /\ files' = Append(files, [motif |-> cur, pass |-> pass,
                               index |-> file_index,
                               text |-> Top.output \o Block.pre,
                               values |-> values])
    /\ files_made' = Append(files_made, file_index)
    /\ file_index' = file_index + 1
    /\ values' = CtxSet(values, KeyN, VInt(file_index'))
    /\ stderr' = OutWrite(stderr, Block.msgs)
    /\ stack' = Pop(stack)
    /\ UNCHANGED scanVars
    /\ UNCHANGED <<inputs, repeat, defs, out, pc, cur, pass>>

\* a block was found: try_assignment, evaluate, then either start the
\* loop over the values but the last, or handle the single value
ProcessBlock ==
    /\ stack /= <<>>
    /\ Top.fn = "process" /\ Top.st = "scan"
    /\ \E b \in {Block} :
       /\ ~b.eof
       /\ pos' = b.pos
       /\ \E a \in {try_assignment(SubSeq(b.code, 3, Len(b.code) - 2))} :
          \E ev \in {evaluate(a.expr, values)} :
          LET f == [Top EXCEPT !.output = @ \o b.pre, !.key = a.key,
                               !.code = b.code]
          IN /\ stderr' = IF ev.failed
                          THEN Append(OutWrite(stderr, b.msgs),
                                      [kind |-> "eval", cmd |-> a.expr])
                          ELSE OutWrite(stderr, b.msgs)
             /\ IF CanPop(ev.res)
                THEN /\ stack' = SetTop(stack,
                           [f EXCEPT !.st = "loop",
                                     !.val = PopLast(ev.res.s).val,
                                     !.vals = VList(PopLast(ev.res.s).vals),
                                     !.i = 0, !.ipos = b.pos])
                     /\ values' = values
                ELSE LET r == BindOrAppend(f, values, ev.res) IN
                     /\ stack' = SetTop(stack, r.frame)
                     /\ values' = r.dic
    /\ UNCHANGED scanVars
    /\ UNCHANGED <<inputs, repeat, defs, out, pc, cur, pass, file_index,
                   files_made, files>>

\* variant: the cursor is left where the previous forked call ended
ProcessForkNoSeek ==
    /\ stack /= <<>>
    /\ Top.fn = "process" /\ Top.st = "loop"
    /\ Top.i < Len(Top.vals.s)
    /\ pos' = pos
    /\ LET v == Top.vals.s[Top.i + 1]
           parent == [Top EXCEPT !.i = @ + 1]
       IN IF Top.key /= <<>>
          THEN /\ values' = CtxSet(values, Top.key, v)
               /\ stack' = Append(SetTop(stack, parent),
                                  ProcessFrame(Top.output))
          ELSE /\ values' = values
               /\ stack' = Append(SetTop(stack, parent),
                                  ProcessFrame(Top.output \o Str(v)))
    /\ UNCHANGED scanVars
    /\ UNCHANGED <<inputs, repeat, defs, out, pc, cur, pass, file_index,
                   files_made, files, stderr>>

\* next `for v in vals`: fork recursively
ProcessFork ==
    /\ stack /= <<>>
    /\ Top.fn = "process" /\ Top.st = "loop"
    /\ Top.i < Len(Top.vals.s)
    /\ pos' = IF Top.i > 0 THEN Top.ipos ELSE pos
    /\ LET v == Top.vals.s[Top.i + 1]
           parent == [Top EXCEPT !.i = @ + 1]
       IN IF Top.key /= <<>>
          THEN /\ values' = CtxSet(values, Top.key, v)
               /\ stack' = Append(SetTop(stack, parent),
                                  ProcessFrame(Top.output))
          ELSE /\ values' = values
               /\ stack' = Append(SetTop(stack, parent),
                                  ProcessFrame(Top.output \o Str(v)))
    /\ UNCHANGED scanVars
    /\ UNCHANGED <<inputs, repeat, defs, out, pc, cur, pass, file_index,
                   files_made, files, stderr>>

\* variant: the value kept aside is handled by one more recursive call
ProcessTailRecurse ==
    /\ stack /= <<>>
    /\ Top.fn = "process" /\ Top.st = "loop"
    /\ Top.i = Len(Top.vals.s)
    /\ pos' = IF Top.i > 0 THEN Top.ipos ELSE pos
    /\ LET b == BindOrAppend([Top EXCEPT !.st = "scan"], values, Top.val)
       IN /\ stack' = Append(SetTop(stack, [Top EXCEPT !.i = @ + 1]),
                             ProcessFrame(b.frame.output))
          /\ values' = b.dic
    /\ UNCHANGED scanVars
    /\ UNCHANGED <<inputs, repeat, defs, out, pc, cur, pass, file_index,
                   files_made, files, stderr>>

\* the loop is over: handle the value kept aside in the same call
ProcessTail ==
    /\ stack /= <<>>
    /\ Top.fn = "process" /\ Top.st = "loop"
    /\ Top.i = Len(Top.vals.s)
    /\ pos' = IF Top.i > 0 THEN Top.ipos ELSE pos
    /\ LET b == BindOrAppend([Top EXCEPT !.st = "scan"], values, Top.val)
       IN /\ stack' = SetTop(stack, b.frame)
          /\ values' = b.dic
    /\ UNCHANGED scanVars
    /\ UNCHANGED <<inputs, repeat, defs, out, pc, cur, pass, file_index,
                   files_made, files, stderr>>

(***************************************************************************)
(* The command lines drawn.  main() has read its arguments: the template   *)
(* files, REPEAT, '+' and the name=value definitions, evaluated in order.  *)
(***************************************************************************)
Blk(t) == <<CODE_IN, CODE_IN>> \o t \o <<CODE_OUT, CODE_OUT>>

SegA == <<"a">>
SegB == <<"b">>
SegOpen == <<"[">>
SegClose == <<"]">>
SegOne == Blk(<<"1">>)                                     \* [[1]]
SegList2 == Blk(<<"[", "1", ",", "2", "]">>)               \* [[[1,2]]]
SegList3 == Blk(<<" ", "[", "6", ",", "7", ",", "8", "]", " ">>)
SegEmpty == Blk(<<"[", "]">>)                              \* [[[]]]
SegTuple == Blk(<<"(", "1", ",", "2", ")">>)               \* [[(1,2)]]
SegX == Blk(<<"x">>)                                       \* [[x]]
SegN == Blk(<<"n">>)                                       \* [[n]]
SegZ == Blk(<<"z">>)                                       \* [[z]], unbound
SegArg == Blk(<<"a">>)                                     \* [[a]]
SegXList == Blk(<<"x", "=", "[", "3", ",", "4", "]">>)     \* [[x=[3,4]]]
SegXInt == Blk(<<" ", "x", " ", "=", " ", "5", " ">>)      \* [[ x = 5 ]]
SegXTuple == Blk(<<"x", "=", "(", "1", ",", "2", ")">>)    \* [[x=(1,2)]]
SegXEmpty == Blk(<<"x", "=", "[", "]">>)                   \* [[x=[]]]
SegXZ == Blk(<<"x", "=", "z">>)                            \* [[x=z]]
SegEqEq == Blk(<<"x", "=", "=", "5">>)                     \* [[x==5]]
SegLessEq == Blk(<<"x", "<", "=", "5">>)                   \* [[x<=5]]
SegBlankKey == Blk(<<" ", "=", "5", " ">>)                 \* [[ =5 ]]
SegNested == <<"a", "[", "b", "[", "c", "]", "]">>         \* a[b[c]]

\* literal text, single brackets and well-formed blocks
ScanSegs == {SegA, SegB, SegOpen, SegClose, SegOne, SegList2}
\* literal text with nested single brackets, next to a block
NestSegs == {SegA, SegNested, SegOne}
\* literal text and value blocks holding sequences
ValueSegs == {SegA, SegList2, SegList3, SegEmpty, SegTuple}
\* blocks whose evaluation fails, next to blocks that fork
ErrorSegs == {SegA, SegList2, SegX, SegZ, SegXZ}
\* uses of the counter n, next to blocks that fork
CounterSegs == {SegA, SegN, SegList2}
\* assignments to x, uses of x and forks
AssignSegs == {SegXInt, SegXList, SegX, SegList2}
\* blocks holding an `=` that is not an assignment, and a use of x
DetectSegs == {SegX, SegEqEq, SegLessEq, SegBlankKey}
\* templates of runs with a REPEAT, definitions or several files
RunSegs == {SegList2, SegN, SegArg, SegXTuple}
MoreInputs == {<<SegN>>}

SeqsUpTo(S, m) == UNION {[1..j -> S] : j \in 0..m}

KeyA == <<"a">>
KeyB == <<"b">>
Definitions ==
    { <<>>,
      <<[key |-> KeyA, val |-> VList(<<VInt(1), VInt(2)>>)]>>,
      <<[key |-> KeyA, val |-> VList(<<VInt(1), VInt(2)>>)],
        [key |-> KeyB, val |-> VTuple(<<VInt(3), VInt(4)>>)]>>,
      <<[key |-> KeyA, val |-> VInt(7)],
        [key |-> KeyB, val |-> VStr(<<"z">>)]>> }

InitScan ==
    /\ inputs \in {<<t>> : t \in SeqsUpTo(ScanSegs, MaxSegs)
                                  \cup SeqsUpTo(NestSegs, MaxSegs)}
    /\ repeat = 1
    /\ out \in {"devnull", "stderr"}
    /\ defs = <<>>

InitExpand ==
    /\ inputs \in {<<t>> : t \in SeqsUpTo(ValueSegs, MaxSegs)
                                  \cup SeqsUpTo(ErrorSegs, MaxSegs)
                                  \cup SeqsUpTo(CounterSegs, MaxSegs)
                                  \cup SeqsUpTo(DetectSegs, MaxSegs)
                                  \cup SeqsUpTo(AssignSegs, MaxSegs + 1)}
    /\ repeat = 1
    /\ out = "devnull"
    /\ defs = <<>>

InitRun ==
    /\ inputs \in {<<t>> \o m : t \in SeqsUpTo(RunSegs, MaxRunSegs),
                                m \in SeqsUpTo(MoreInputs, MaxInputs - 1)}
    /\ repeat \in 1..MaxRepeat
    /\ out = "devnull"
    /\ defs \in Definitions

Init ==
    /\ \/ InitScan
       \/ InitExpand
       \/ InitRun
    /\ values = defs
    /\ pc = "main"
    /\ cur = 0
    /\ pass = 0
    /\ pos = 0
    /\ stack = <<>>
    /\ file_index = 0
    /\ files_made = <<>>
    /\ files = <<>>
    /\ stderr = <<>>
    /\ ScanIdle

Next ==
    \/ ParseBegin
    \/ ParsePass
    \/ ParseReturn
    \/ ExpandEnter
    \/ ExpandLoop
    \/ ExpandRestore
    \/ ExpandReturn
    \/ ProcessEmit
    \/ ProcessBlock
    \/ ProcessFork
    \/ ProcessTail

Spec == Init /\ [][Next]_allVars

\* the interpreter runs main() to its end: a step that can be taken is taken
FairSpec == Spec /\ WF_vars(Next)

(***************************************************************************)
(* scan.py: the command is run in each directory by main() itself or by    *)
(* njobs worker processes that draw the directories from a shared queue.   *)
(***************************************************************************)
MaxPaths == 3
MaxJobs == 3

Dirs == {"run1", "run2"}

PathLists == UNION {[1..n -> Dirs] : n \in 1..MaxPaths}

Min(a, b) == IF a < b THEN a ELSE b

\* a Process running worker(): about to call queue.get, holding an item
\* it is about to execute, or returned
Process(st, item) == [st |-> st, item |-> item]

NoItem == ""

\* main() has read its arguments: at least one directory (else it returned
\* 2), the jobs argument if any
InitScanPy ==
    /\ paths \in PathLists
    /\ jobsArg \in 0..MaxJobs
    /\ importable \in BOOLEAN
    /\ njobs = jobsArg
    /\ queue = <<>>
    /\ jobs = <<>>
    /\ looped = 0
    /\ spc = "cap"
    /\ executed = <<>>
    /\ inputs = <<>>
    /\ repeat = 1
    /\ defs = <<>>
    /\ out = "devnull"
    /\ values = <<>>
    /\ pc = "done"
    /\ cur = 0
    /\ pass = 0
    /\ pos = 0
    /\ stack = <<>>
    /\ file_index = 0
    /\ files_made = <<>>
    /\ files = <<>>
    /\ stderr = <<>>

\* njobs = min(njobs, len(paths)); with njobs > 1 the import is tried and a
\* Queue is made, else (or on ImportError) the sequential loop is entered
MainCap ==
    /\ spc = "cap"
    /\ njobs' = Min(njobs, Len(paths))
    /\ spc' = IF njobs' > 1 /\ importable THEN "put" ELSE "sequential"
    /\ UNCHANGED <<paths, jobsArg, importable, queue, jobs, looped, executed>>
    /\ UNCHANGED vars

\* for p in paths: queue.put((tool, p, verbose))
MainPut ==
    /\ spc = "put"
    /\ queue' = Append(queue, paths[looped + 1])
    /\ IF looped + 1 = Len(paths)
       THEN looped' = 0 /\ spc' = "start"
       ELSE looped' = looped + 1 /\ spc' = spc
    /\ UNCHANGED <<paths, jobsArg, importable, njobs, jobs, executed>>
    /\ UNCHANGED vars

\* for n in range(njobs): j = Process(...); jobs.append(j); j.start()
MainStart ==
    /\ spc = "start"
    /\ jobs' = Append(jobs, Process("get", NoItem))
    /\ IF looped + 1 = njobs
       THEN looped' = 0 /\ spc' = "join"
       ELSE looped' = looped + 1 /\ spc' = spc
    /\ UNCHANGED <<paths, jobsArg, importable, njobs, queue, executed>>
    /\ UNCHANGED vars

\* a join that does not wait for the process to exit
MainJoinNoWait ==
    /\ spc = "join"
    /\ IF looped + 1 = Len(jobs)
       THEN looped' = 0 /\ spc' = "returned"
       ELSE looped' = looped + 1 /\ spc' = spc
    /\ UNCHANGED <<paths, jobsArg, importable, njobs, queue, jobs, executed>>
    /\ UNCHANGED vars

\* for j in jobs: j.join(), which blocks until process j has exited; after
\* the last one, return 0
MainJoin ==
    /\ spc = "join"
    /\ jobs[looped + 1].st = "exited"
    /\ IF looped + 1 = Len(jobs)
       THEN looped' = 0 /\ spc' = "returned"
       ELSE looped' = looped + 1 /\ spc' = spc
    /\ UNCHANGED <<paths, jobsArg, importable, njobs, queue, jobs, executed>>
    /\ UNCHANGED vars

\* for p in paths: execute(tool, p, verbose); then return 0
MainExecute ==
    /\ spc = "sequential"
    /\ executed' = Append(executed, [path |-> paths[looped + 1], by |-> 0])
    /\ IF looped + 1 = Len(paths)
       THEN looped' = 0 /\ spc' = "returned"
       ELSE looped' = looped + 1 /\ spc' = spc
    /\ UNCHANGED <<paths, jobsArg, importable, njobs, queue, jobs>>
    /\ UNCHANGED vars

\* t, p, v = queue.get(True, 1) returns the oldest item and removes it; the
\* queue's reader lock makes this one step among the workers
WorkerGet(w) ==
    /\ jobs[w].st = "get"
    /\ queue /= <<>>
    /\ jobs' = [jobs EXCEPT ![w] = Process("execute", Head(queue))]
    /\ queue' = Tail(queue)
    /\ UNCHANGED <<paths, jobsArg, importable, njobs, looped, spc, executed>>
    /\ UNCHANGED vars

\* queue.get(True, 1) raises Empty after one second without an item, and
\* worker() returns.  Every item was put before the first worker started
\* and reaches a waiting reader well within the second: the second passes
\* only on a queue that holds nothing.
WorkerTimeout(w) ==
    /\ jobs[w].st = "get"
    /\ queue = <<>>
    /\ jobs' = [jobs EXCEPT ![w] = Process("exited", NoItem)]
    /\ UNCHANGED <<paths, jobsArg, importable, njobs, queue, looped, spc,
                   executed>>
    /\ UNCHANGED vars

\* execute(t, p, v) in the worker's process, then back to the top of the
\* loop
WorkerExecute(w) ==
    /\ jobs[w].st = "execute"
    /\ executed' = Append(executed, [path |-> jobs[w].item, by |-> w])
    /\ jobs' = [jobs EXCEPT ![w] = Process("get", NoItem)]
    /\ UNCHANGED <<paths, jobsArg, importable, njobs, queue, looped, spc>>
    /\ UNCHANGED vars

NextScanPy ==
    \/ MainCap
    \/ MainPut
    \/ MainStart
    \/ MainJoin
    \/ MainExecute
    \/ \E w \in 1..Len(jobs) : WorkerGet(w)
    \/ \E w \in 1..Len(jobs) : WorkerTimeout(w)
    \/ \E w \in 1..Len(jobs) : WorkerExecute(w)

SpecScanPy == InitScanPy /\ [][NextScanPy]_allVars

(***************************************************************************)
(* Properties.                                                             *)
(***************************************************************************)
Done == pc = "done"

\* one template, parsed once, without definitions
PlainRun == Len(inputs) = 1 /\ repeat = 1 /\ defs = <<>>
T == inputs[1]
Text(j) == files[j].text

IsPrefix(a, b) == Len(a) <= Len(b) /\ SubSeq(b, 1, Len(a)) = a

LitSegs == {SegA, SegB}
ListSegs == {SegList2, SegList3}
\* the list a list block holds, read off the template
ListOfSeg(seg) ==
    IF seg = SegList2 THEN <<VInt(1), VInt(2)>>
    ELSE <<VInt(6), VInt(7), VInt(8)>>
IsListTemplate(t) == \A p \in 1..Len(t) : t[p] \in LitSegs \cup ListSegs
Blocks(t) == {p \in 1..Len(t) : t[p] \notin LitSegs}
LastBlock(t) ==
    IF Blocks(t) = {} THEN 0
    ELSE CHOOSE p \in Blocks(t) : \A q \in Blocks(t) : q <= p

SegLen(seg) == IF seg \in ListSegs THEN Len(ListOfSeg(seg)) ELSE 1
RECURSIVE ProdFrom(_, _)
ProdFrom(t, p) ==
    IF p > Len(t) THEN 1 ELSE SegLen(t[p]) * ProdFrom(t, p + 1)

\* the element of block p in the j-th tuple (j from 0) of the product of
\* the lists, in lexicographic order
Choice(t, p, j) == ((j \div ProdFrom(t, p + 1)) % SegLen(t[p])) + 1
Rendered(t, j, upto) ==
    Flatten([p \in 1..upto |->
                IF t[p] \in ListSegs
                THEN Str(ListOfSeg(t[p])[Choice(t, p, j)])
                ELSE t[p]])

\* C1: a template of literal text and list blocks L1..Lm emits
\* |L1| x ... x |Lm| files, and the file of index j carries the j-th tuple
\* of the product in lexicographic order, first block slowest.
C1_LexOrder ==
    (Done /\ PlainRun /\ IsListTemplate(T)) =>
        /\ Len(files) = ProdFrom(T, 1)
        /\ \A j \in 1..Len(files) :
              /\ files[j].index = j - 1
              /\ IsPrefix(Rendered(T, j - 1, LastBlock(T)), Text(j))
              /\ IsPrefix(Text(j), Rendered(T, j - 1, Len(T)))

C1_Witness ==
    /\ Done /\ PlainRun /\ IsListTemplate(T)
    /\ Cardinality(Blocks(T)) >= 2
    /\ \E p \in Blocks(T) : T[p] = SegList3
    /\ Len(files) >= 6

\* the single block of a template that has exactly one
SeqSegs == {SegList2, SegList3, SegEmpty, SegTuple}
SingleBlock(t) ==
    /\ Cardinality(Blocks(t)) = 1
    /\ \A p \in Blocks(t) : t[p] \in SeqSegs
TheBlock(t) == CHOOSE p \in 1..Len(t) : t[p] \notin LitSegs
\* the sequence the block holds, read off the template
SeqOfSeg(seg) ==
    CASE seg = SegList2 -> VList(<<VInt(1), VInt(2)>>)
      [] seg = SegList3 -> VList(<<VInt(6), VInt(7), VInt(8)>>)
      [] seg = SegEmpty -> VList(<<>>)
      [] seg = SegTuple -> VTuple(<<VInt(1), VInt(2)>>)
Before(t) == Flatten(SubSeq(t, 1, TheBlock(t) - 1))
\* file j is the text before the block, then sub, then text r
FileIs(j, t, sub, r) == Text(j) = Before(t) \o sub \o r
RestOf(j, t, sub) ==
    SubSeq(Text(j), Len(Before(t)) + Len(sub) + 1, Len(Text(j)))

C3_Verbatim ==
    (Done /\ PlainRun /\ Blocks(T) = {}) =>
        /\ Len(files) = 1
        /\ Text(1) = Flatten(T)


IsAssignTemplate(t) == \A p \in 1..Len(t) : t[p] \in AssignSegs
AssignsX(seg) == seg \in {SegXInt, SegXList}
\* characters a segment of an AssignSegs template puts into a file: none
\* for an assignment, one for [[x]] and for [[[1,2]]]
Width(seg) == IF AssignsX(seg) THEN 0 ELSE 1
RECURSIVE Offset(_, _)
Offset(t, p) == IF p = 1 THEN 0 ELSE Offset(t, p - 1) + Width(t[p - 1])
\* the last assignment to x before segment p, 0 if there is none
LastAssign(t, p) ==
    IF \E q \in 1..(p - 1) : AssignsX(t[q])
    THEN CHOOSE q \in 1..(p - 1) :
            AssignsX(t[q]) /\ \A h \in (q + 1)..(p - 1) : ~AssignsX(t[h])
    ELSE 0

\* C4: after an assignment block x = E, a value block x holds, in every
\* file, the string form of the value the assignment bound on that branch
\* (E, or one element of E when E is a list), and the assignment block
\* itself puts no text into the file.
C4_RoundTrip ==
    (Done /\ PlainRun /\ IsAssignTemplate(T)) =>
        \A j \in 1..Len(files) :
           /\ Len(Text(j)) = Offset(T, Len(T) + 1)
           /\ \A p \in 1..Len(T) :
                 (T[p] = SegX /\ LastAssign(T, p) /= 0) =>
                    LET c == Text(j)[Offset(T, p) + 1] IN
                    IF T[LastAssign(T, p)] = SegXInt
                    THEN c = "5"
                    ELSE c \in {"3", "4"}

IsCounterTemplate(t) == \A p \in 1..Len(t) : t[p] \in CounterSegs
\* with n the index of the file, the text of the first p - 1 segments
RECURSIVE CounterOffset(_, _, _)
CounterOffset(t, p, idx) ==
    IF p = 1 THEN 0
    ELSE CounterOffset(t, p - 1, idx)
            + (IF t[p - 1] = SegN THEN Len(Digits(idx)) ELSE 1)

\* C5: in the file of index i every value block n holds i, wherever the
\* block stands in the template.
C5_CounterIsIndex ==
    (Done /\ PlainRun /\ IsCounterTemplate(T)) =>
        \A j \in 1..Len(files) : \A p \in 1..Len(T) :
            T[p] = SegN =>
               LET i == files[j].index
                   o == CounterOffset(T, p, i)
               IN SubSeq(Text(j), o + 1, o + Len(Digits(i))) = Digits(i)

IsSequenceValue(v) == v.k \in {"list", "tuple"}
RECURSIVE SeqProduct(_)
SeqProduct(dic) ==
    IF dic = <<>> THEN 1
    ELSE (IF IsSequenceValue(Head(dic).val) THEN Len(Head(dic).val.s) ELSE 1)
            * SeqProduct(Tail(dic))
IsRunTemplate(t) == \A p \in 1..Len(t) : t[p] \in RunSegs
\* files a RunSegs template gives in one pass on a context of scalars
RECURSIVE AloneFiles(_)
AloneFiles(t) ==
    IF t = <<>> THEN 1
    ELSE (IF Head(t) = SegList2 THEN 2 ELSE 1) * AloneFiles(Tail(t))

\* C6: sequences of lengths c1..cp given as definitions multiply the F
\* files of the template: one pass gives c1 x ... x cp x F files, each
\* definition bound to one element of its sequence in every file.
C6_Multiplicative ==
    (Done /\ Len(inputs) = 1 /\ repeat = 1 /\ IsRunTemplate(T)) =>
        /\ Len(files) = SeqProduct(defs) * AloneFiles(T)
        /\ \A j \in 1..Len(files) : \A d \in 1..Len(defs) :
              IsSequenceValue(defs[d].val) =>
                 /\ CtxHas(files[j].values, defs[d].key)
                 /\ \E h \in 1..Len(defs[d].val.s) :
                       CtxGet(files[j].values, defs[d].key) = defs[d].val.s[h]

FilesOfPass(m, r) ==
    Cardinality({j \in 1..Len(files) :
                    files[j].motif = m /\ files[j].pass = r})

\* C7: with REPEAT = R every pass over a template gives as many files as
\* the first pass.
C7_RepeatPasses ==
    Done => \A m \in 1..Len(inputs) : \A r \in 1..repeat :
                FilesOfPass(m, r) = FilesOfPass(m, 1)

IsErrorTemplate(t) == \A p \in 1..Len(t) : t[p] \in ErrorSegs
\* [[z]] and [[x=z]] never evaluate
Failing(t) == {p \in 1..Len(t) : t[p] \in {SegZ, SegXZ}}
\* characters a segment of an ErrorSegs template puts into a file
ErrWidth(seg) == IF seg = SegXZ THEN 0 ELSE 1
RECURSIVE ErrOffset(_, _)
ErrOffset(t, p) ==
    IF p = 1 THEN 0 ELSE ErrOffset(t, p - 1) + ErrWidth(t[p - 1])
\* what segment p may put into the file of the j-th branch (j from 0):
\* the text z for [[z]], the text x or the text bound to x for [[x]]
Allowed(t, p, j) ==
    CASE t[p] = SegZ -> {"z"}
      [] t[p] = SegX -> {"x", "z"}
      [] t[p] = SegList2 -> {Str(ListOfSeg(t[p])[Choice(t, p, j)])[1]}
      [] OTHER -> {t[p][1]}
NumEval(err) == Cardinality({h \in 1..Len(err) : err[h].kind = "eval"})

\* the files of a template with failing blocks are those of the same
\* template with a scalar in their place
FilesAsScalar ==
    (Done /\ PlainRun /\ IsErrorTemplate(T) /\ Failing(T) /= {}) =>
        /\ Len(files) = ProdFrom(T, 1)
        /\ NumEval(stderr) >= 1
        /\ \A j \in 1..Len(files) :
              /\ files[j].index = j - 1
              /\ Len(Text(j)) >= ErrOffset(T, LastBlock(T) + 1)
              /\ Len(Text(j)) <= ErrOffset(T, Len(T) + 1)
              /\ \A p \in 1..Len(T) :
                    (ErrWidth(T[p]) = 1 /\ ErrOffset(T, p) < Len(Text(j))) =>
                        Text(j)[ErrOffset(T, p) + 1] \in Allowed(T, p, j - 1)

\* the step of process() on a block whose evaluation raises
FailingStep ==
    /\ ProcessBlock
    /\ LET code == Block.code
       IN ~PyEval(try_assignment(SubSeq(code, 3, Len(code) - 2)).expr,
                  values).ok
FailingStepEffect ==
    LET code == Block.code
        a == try_assignment(SubSeq(code, 3, Len(code) - 2))
    IN /\ NumEval(stderr') = NumEval(stderr) + 1
       /\ stderr'[Len(stderr')] = [kind |-> "eval", cmd |-> a.expr]
       /\ Len(stack') = Len(stack)
       /\ stack'[Len(stack')].st = "scan"
       /\ IF a.key /= <<>>
          THEN /\ CtxGet(values', a.key) = VStr(a.expr)
               /\ stack'[Len(stack')].output = Top.output \o Block.pre
          ELSE /\ values' = values
               /\ stack'[Len(stack')].output
                     = Top.output \o Block.pre \o a.expr

\* C8: a block whose evaluation fails is reported once on sys.stderr and
\* its expression text is substituted or bound as a scalar, without a
\* fork; the run emits the files, in the order, it emits for a scalar.
C8_EvalFailureLocal ==
    /\ []FilesAsScalar
    /\ [][FailingStep => FailingStepEffect]_vars

C8_Witness ==
    /\ Done /\ PlainRun /\ IsErrorTemplate(T)
    /\ \E p \in Failing(T) : \E q \in 1..(p - 1) : T[q] = SegList2
    /\ \E p \in 1..Len(T) : T[p] = SegXZ
    /\ Len(files) >= 2
    /\ NumEval(stderr) >= 2

RECURSIVE Depth(_, _)
Depth(text, p) ==
    IF p = 0 THEN 0
    ELSE Depth(text, p - 1)
            + (IF text[p] = CODE_IN THEN 1
               ELSE IF text[p] = CODE_OUT THEN -1 ELSE 0)
\* a close marker without an open one, or a marker left open at the end
Malformed(text) ==
    \/ \E p \in 1..Len(text) : Depth(text, p) < 0
    \/ Depth(text, Len(text)) /= 0

\* C9: on a malformed template the scanner reports an error on the error
\* stream, and the run still emits the file of the branch.
C9_MalformedReported ==
    (Done /\ PlainRun /\ Malformed(Flatten(T))) =>
        /\ \E h \in 1..Len(stderr) : stderr[h].kind \in {"unbalanced", "eof"}
        /\ Len(files) >= 1

\* C10: the i-th file written (from 0) was named with index i, file_index
\* is the number of files written, and no index is used twice.
C10_SequentialIndex ==
    /\ file_index = Len(files)
    /\ \A j \in 1..Len(files) : files[j].index = j - 1
    /\ \A i, j \in 1..Len(files) :
          files[i].index = files[j].index => i = j

C10_Witness ==
    /\ Done
    /\ Len(inputs) = 2 /\ repeat = 2
    /\ \E d \in 1..Len(defs) : IsSequenceValue(defs[d].val)
    /\ \E j \in 1..Len(files) : files[j].motif = 2 /\ files[j].pass = 2
    /\ \E j \in 1..Len(files) : Len(files[j].values) > Len(defs) + 1
    /\ Len(files) >= 8

\* process() is about to evaluate the block that get_block returns
AtEvaluation ==
    /\ stack /= <<>>
    /\ Top.fn = "process" /\ Top.st = "scan"
    /\ ~Block.eof

\* C11: whenever a block is evaluated, the context variable n is the number
\* of files generated so far in the run (file_index), in every pass and in
\* every template of the run.
C11_CounterAtEvaluation ==
    AtEvaluation =>
        /\ CtxHas(values, KeyN)
        /\ CtxGet(values, KeyN) = VInt(file_index)

\* a span that starts with two open markers and ends with two close markers
IsDoubled(code) ==
    /\ Len(code) >= 4
    /\ code[1] = CODE_IN /\ code[2] = CODE_IN
    /\ code[Len(code) - 1] = CODE_OUT /\ code[Len(code)] = CODE_OUT

IsNestTemplate(t) == \A p \in 1..Len(t) : t[p] \in NestSegs
\* characters a segment of a NestSegs template puts into a file
NestWidth(seg) == IF seg = SegOne THEN 1 ELSE Len(seg)
RECURSIVE NestOffset(_, _)
NestOffset(t, p) ==
    IF p = 1 THEN 0 ELSE NestOffset(t, p - 1) + NestWidth(t[p - 1])

\* C12: get_block returns a block only for a span between doubled markers,
\* and literal text with nested single brackets that is followed by more
\* of the template stands in every file unchanged, closing brackets
\* included.
C12_SingleBracketsLiteral ==
    /\ AtEvaluation => IsDoubled(Block.code)
    /\ (Done /\ PlainRun /\ IsNestTemplate(T)) =>
          \A j \in 1..Len(files) : \A p \in 1..(Len(T) - 1) :
              T[p] = SegNested =>
                 SubSeq(Text(j), NestOffset(T, p) + 1,
                        NestOffset(T, p) + Len(SegNested)) = SegNested

BracketSegs == {SegOpen, SegClose}
BlockSegs == {SegOne, SegList2}
\* segment p is a block, the segments before it are literal text and single
\* brackets, no two brackets are adjacent and a letter stands right before
\* the block: the only doubled open marker is the one of the block
UnmatchedBefore(t, p) ==
    /\ p > 1
    /\ t[p] \in BlockSegs
    /\ t[p - 1] \in LitSegs
    /\ \A q \in 1..(p - 1) : t[q] \in LitSegs \cup BracketSegs
    /\ \E q \in 1..(p - 1) : t[q] \in BracketSegs
    /\ \A q \in 1..(p - 2) : ~(t[q] \in BracketSegs /\ t[q + 1] \in BracketSegs)

\* process() is about to call get_block for the first time in a pass
AtFirstScan ==
    /\ stack /= <<>>
    /\ Top.fn = "process" /\ Top.st = "scan"
    /\ pos = 0

\* C13: a well-formed block that follows literal text holding an unmatched
\* single bracket is returned as a block: the text before it as prefix, the
\* block with its delimiters as block text.
C13_BlockAtAnyDepth ==
    (AtFirstScan /\ PlainRun) =>
        \A p \in 1..Len(T) :
            UnmatchedBefore(T, p) =>
                /\ ~Block.eof
                /\ Block.pre = Flatten(SubSeq(T, 1, p - 1))
                /\ Block.code = T[p]

\* the content of a block: code[2:-2]
Content(code) == SubSeq(code, 3, Len(code) - 2)
CountEq(cmd) == Cardinality({j \in 1..Len(cmd) : cmd[j] = "="})
\* the assignment the claim describes: a target only when exactly one `=`
\* separates a left side and a right side that are not blank
StatedAssignment(cmd) ==
    IF CountEq(cmd) = 1
    THEN LET j == CHOOSE j \in 1..Len(cmd) : cmd[j] = "="
             k == Strip(SubSeq(cmd, 1, j - 1))
             v == Strip(SubSeq(cmd, j + 1, Len(cmd)))
         IN IF k /= <<>> /\ v /= <<>>
            THEN [key |-> k, expr |-> v]
            ELSE [key |-> <<>>, expr |-> cmd]
    ELSE [key |-> <<>>, expr |-> cmd]

\* C14: try_assignment gives a target name only for a content with exactly
\* one `=` between two sides that are not blank; for any other content it
\* gives no target and the whole content as the expression, and process()
\* then handles the block as a value block.
C14_AssignmentDetection ==
    /\ AtEvaluation =>
          try_assignment(Content(Block.code))
              = StatedAssignment(Content(Block.code))
    /\ \A h \in 1..Len(stack) :
          (stack[h].fn = "process" /\ stack[h].code /= <<>>) =>
              stack[h].key = StatedAssignment(Content(stack[h].code)).key

\* what the block about to be evaluated evaluates to
BlockResult ==
    evaluate(try_assignment(Content(Block.code)).expr, values).res
\* the step of process() on a block starts the loop over several values
Forks == stack'[Len(stack')].st = "loop"

\* C15: process() forks on the result of a block exactly when the result
\* has a length and is not a string, the test pop_sequence applies to the
\* entries of the context.
C15_SameDiscrimination ==
    [][ProcessBlock => (Forks <=> HasLen(BlockResult))]_vars

\* C16: at every call of make_file every entry of the context is bound to a
\* scalar, none to a sequence.
C16_ScalarAtEmission ==
    \A j \in 1..Len(files) : \A h \in 1..Len(files[j].values) :
        ~IsSequenceValue(files[j].values[h].val)

\* a call forked by the first block of the template, a value block, has
\* returned to the loop of the outermost process() call
AfterForkedCall ==
    /\ Len(stack) = 2
    /\ Top.fn = "process" /\ Top.st = "loop" /\ Top.i > 0
    /\ Top.key = <<>>
    /\ Top.code = T[1] /\ Top.ipos = Len(T[1])

\* C17: when the call made for a forked value returns, the context is what
\* the parent had before the fork, apart from n; and a block never
\* evaluates to a value bound only in a sibling branch: a use of x with no
\* assignment to x before it in the template gives the text x in every
\* file.
C17_StackDiscipline ==
    /\ (PlainRun /\ AfterForkedCall) =>
          \A h \in 1..Len(values) : values[h].key = KeyN
    /\ (Done /\ PlainRun /\ IsAssignTemplate(T)) =>
          \A j \in 1..Len(files) : \A p \in 1..Len(T) :
              (T[p] = SegX /\ LastAssign(T, p) = 0
                  /\ Offset(T, p) < Len(Text(j))) =>
                    Text(j)[Offset(T, p) + 1] = "x"

\* nested active calls of process()
ProcDepth ==
    Cardinality({h \in 1..Len(stack) : stack[h].fn = "process"})
\* blocks whose result has two values or more
MultiSegs == {SegList2, SegList3, SegTuple, SegXList, SegXTuple}
NumMulti(t) == Cardinality({p \in 1..Len(t) : t[p] \in MultiSegs})
\* process() is about to reach the end of the template and emit a file
AtEmission ==
    /\ stack /= <<>>
    /\ Top.fn = "process" /\ Top.st = "scan"
    /\ Block.eof
\* list blocks of which the file of index j (from 0) holds another value
\* than the last
NotLast(t, j) ==
    {p \in Blocks(t) : Choice(t, p, j) /= SegLen(t[p])}

\* C18: the nested active calls of process() never outnumber 1 plus the
\* multi-valued blocks of the template, and the last value of every list is
\* handled in the frame that met the block: the call that emits file j is
\* nested 1 plus the number of blocks for which j holds a value that is
\* not the last.
C18_TailInFrame ==
    /\ stack /= <<>> => ProcDepth <= 1 + NumMulti(inputs[cur])
    /\ (PlainRun /\ AtEmission /\ IsListTemplate(T)) =>
          ProcDepth = 1 + Cardinality(NotLast(T, file_index))

C18_Witness ==
    /\ PlainRun /\ AtEmission /\ IsListTemplate(T)
    /\ Cardinality(Blocks(T)) >= 2
    /\ ProcDepth = 1
    /\ file_index = ProdFrom(T, 1) - 1
    /\ file_index >= 5

\* a step of process() that calls get_block
ScanStep == ProcessBlock \/ ProcessEmit
\* a step of process() that starts a branch: a forked one or the tail
BranchStep == ProcessFork \/ ProcessTail
\* a call of process() returns
ProcessReturns ==
    /\ stack /= <<>>
    /\ Top.fn = "process"
    /\ Len(stack') < Len(stack)
\* the block that Top forked on ends right before position p
EndsAt(code, p) ==
    /\ Len(code) <= p
    /\ SubSeq(Template, p - Len(code) + 1, p) = code

StepsProgress ==
    /\ ScanStep => (pos' > pos \/ Block.eof)
    /\ BranchStep => (pos' = Top.ipos /\ EndsAt(Top.code, Top.ipos))
    /\ ProcessReturns => Len(files') = Len(files) + 1
    /\ Len(files') /= Len(files) => ProcessReturns

\* C19: every run ends; a call of get_block consumes a character or
\* returns end-of-stream, every branch starts right after the block that
\* forked, and a call of process() returns exactly when it has emitted
\* its one file.
C19_Terminates ==
    /\ <>Done
    /\ [][StepsProgress]_vars

C19_Witness ==
    /\ Done /\ PlainRun /\ IsAssignTemplate(T)
    /\ \E p \in 1..Len(T) : T[p] = SegXList
    /\ \E p \in 1..Len(T) : T[p] = SegList2
    /\ Len(files) >= 8

(***************************************************************************)
(* C20.  scan.py executes the command exactly once in each directory       *)
(* given.  With workers (min(jobs, number of directories) of them, which   *)
(* exist when that number exceeds 1) no directory is executed more often   *)
(* than it was given, whatever the interleaving of the workers; when all   *)
(* workers have exited the queue is empty and every directory has been     *)
(* executed; main returns only after every worker has exited.  Without     *)
(* workers main executes the directories itself, once each, in the order   *)
(* given.                                                                  *)
(***************************************************************************)
CountIn(s, d) == Cardinality({i \in 1..Len(s) : s[i] = d})

ExecutedPaths == [i \in 1..Len(executed) |-> executed[i].path]

AllExited == \A w \in 1..Len(jobs) : jobs[w].st = "exited"

AllExecuted ==
    \A d \in Dirs : CountIn(ExecutedPaths, d) = CountIn(paths, d)

C20_ExactlyOnce ==
    /\ \A d \in Dirs : CountIn(ExecutedPaths, d) <= CountIn(paths, d)
    /\ jobs /= <<>> =>
          /\ jobsArg > 1
          /\ Len(jobs) <= Min(jobsArg, Len(paths))
          /\ spc \in {"join", "returned"} =>
                Len(jobs) = Min(jobsArg, Len(paths))
          /\ \A i \in 1..Len(executed) : executed[i].by \in 1..Len(jobs)
          /\ (spc \in {"join", "returned"} /\ AllExited) =>
                queue = <<>> /\ AllExecuted
    /\ spc \in {"sequential", "returned"} /\ jobs = <<>> =>
          /\ Min(jobsArg, Len(paths)) <= 1 \/ ~importable
          /\ queue = <<>>
          /\ ExecutedPaths = SubSeq(paths, 1, Len(executed))
          /\ \A i \in 1..Len(executed) : executed[i].by = 0
    /\ spc = "returned" => AllExited /\ AllExecuted

\* main has returned from a run of two workers on three directories that
\* both executed some, finishing in another order than the one given
C20_Witness ==
    /\ spc = "returned"
    /\ Len(jobs) = 2
    /\ Len(paths) = 3
    /\ \E i, j \in 1..Len(executed) : executed[i].by /= executed[j].by
    /\ ExecutedPaths /= paths

====
